---- MODULE Spec2Model ----
(***************************************************************************)
(* Model of src/options.rs: the Options struct, the Chain selector and the *)
(* accessors max_index_size, rpc_url, cookie_file, data_dir and            *)
(* bitcoin_rpc_client, together with the collaborators they call: the      *)
(* platform directory lookup (dirs), the filesystem (fs::create_dir_all)   *)
(* and the RPC client constructor (Client::new).                           *)
(*                                                                         *)
(* Encodings.  Option<T>: None is <<>>, Some(x) is <<x>>.  A path is the   *)
(* sequence of its components.  A String is a sequence of text pieces, so  *)
(* that formatting is concatenation and containment is decidable.  A byte  *)
(* count is a little-endian sequence of base-2^20 limbs (2^40 exceeds the  *)
(* integers TLC computes with).  Result<T>: [ok, val, err], err being the   *)
(* anyhow cause chain, outermost message first.                            *)
(***************************************************************************)
EXTENDS Integers, Sequences, FiniteSets, TLC

VARIABLES opts, env, fs, last, callers, firstOk

vars == <<opts, env, fs, last, callers, firstOk>>

\* ---------------------------------------------------------------- bounds

\* Explicit --max-index-size values range over 0..MaxBytes.
MaxBytes == 1
\* Number of concurrent callers of data_dir in SpecRace.
NumCallers == 2

\* ------------------------------------------------------------- encodings

None == <<>>
Some(x) == <<x>>
IsSome(o) == o # <<>>
Unwrap(o) == o[1]

Ok(v) == [ok |-> TRUE, val |-> v, err |-> <<>>]
Err(chain) == [ok |-> FALSE, val |-> <<>>, err |-> chain]

\* Path::join with a relative component.
Join(path, seg) == Append(path, seg)

\* Path::display: the components separated by "/".
RECURSIVE Display(_)
Display(path) ==
  IF Len(path) = 0 THEN <<>>
  ELSE IF Len(path) = 1 THEN <<path[1]>>
  ELSE Display(SubSeq(path, 1, Len(path) - 1)) \o <<"/", path[Len(path)]>>

\* Path::ends_with: whole trailing components.
EndsWith(path, suffix) ==
  /\ Len(suffix) <= Len(path)
  /\ SubSeq(path, Len(path) - Len(suffix) + 1, Len(path)) = suffix

\* The grave accent of the messages (a character strings here cannot hold).
Tick == "<grave>"

\* str::contains on piece sequences.
Contains(text, part) ==
  \E i \in 0..(Len(text) - Len(part)) : SubSeq(text, i + 1, i + Len(part)) = part

\* ------------------------------------------------------------------ Bytes

LimbBase == 2^20

\* Bytes(n) for a small n.
Bytes(n) == <<n>>

MIB == <<0, 1>>
TIB == <<0, 0, 1>>

RECURSIVE MulCarry(_, _, _)
MulCarry(b, n, carry) ==
  IF Len(b) = 0
    THEN IF carry = 0 THEN <<>> ELSE <<carry>>
    ELSE LET t == b[1] * n + carry
         IN  <<t % LimbBase>> \o MulCarry(Tail(b), n, t \div LimbBase)

\* impl Mul<usize> for Bytes
BytesMul(b, n) == MulCarry(b, n, 0)

\* ------------------------------------------------------------------ Chain

Chains == {"Main", "Mainnet", "Regtest", "Signet", "Test", "Testnet"}

networkAliasSplit(chain) ==
  CASE chain = "Main" -> "Bitcoin"
    [] chain = "Mainnet" -> "Bitcoin"
    [] chain = "Regtest" -> "Regtest"
    [] chain = "Signet" -> "Signet"
    [] chain = "Test" -> "Regtest"
    [] chain = "Testnet" -> "Testnet"

network(chain) ==
  CASE chain \in {"Main", "Mainnet"} -> "Bitcoin"
    [] chain = "Regtest" -> "Regtest"
    [] chain = "Signet" -> "Signet"
    [] chain \in {"Test", "Testnet"} -> "Testnet"

\* Network's Display: the lowercase network name.
NetworkToString(net) ==
  CASE net = "Bitcoin" -> "bitcoin"
    [] net = "Regtest" -> "regtest"
    [] net = "Signet" -> "signet"
    [] net = "Testnet" -> "testnet"

join_network_with_data_dirAlways(chain, data_dir) ==
  Join(data_dir, NetworkToString(network(chain)))

join_network_with_data_dir(chain, data_dir) ==
  IF network(chain) = "Bitcoin"
    THEN data_dir
    ELSE Join(data_dir, NetworkToString(network(chain)))

\* ------------------------------------------------- platform and user data

\* What dirs::home_dir() and dirs::data_dir() return when they return Some.
HomeDir == <<"home">>
PlatformDataDir == <<"share">>

UserCookieFile == <<"foo", "bar">>
UserRpcUrl == <<"127.0.0.1:1234">>
UserDataDir == <<"custom">>
UserBitcoinDataDir == <<"foo">>

\* --------------------------------------------------------------- accessors

max_index_sizeFixedDefault(o) ==
  IF IsSome(o.max_index_size) THEN Unwrap(o.max_index_size) ELSE TIB

max_index_size(o) ==
  IF IsSome(o.max_index_size)
    THEN Unwrap(o.max_index_size)
    ELSE IF network(o.chain) = "Regtest" THEN BytesMul(MIB, 10) ELSE TIB

rpc_urlSwappedPorts(o) ==
  IF IsSome(o.rpc_url)
    THEN Unwrap(o.rpc_url)
    ELSE <<"127.0.0.1:">> \o
         << CASE network(o.chain) = "Bitcoin" -> "8332"
              [] network(o.chain) = "Regtest" -> "18332"
              [] network(o.chain) = "Signet" -> "38332"
              [] network(o.chain) = "Testnet" -> "18443" >>

rpc_url(o) ==
  IF IsSome(o.rpc_url)
    THEN Unwrap(o.rpc_url)
    ELSE <<"127.0.0.1:">> \o
         << CASE network(o.chain) = "Bitcoin" -> "8332"
              [] network(o.chain) = "Regtest" -> "18443"
              [] network(o.chain) = "Signet" -> "38332"
              [] network(o.chain) = "Testnet" -> "18332" >>

cookie_fileDataDirFirst(o, e) ==
  IF IsSome(o.bitcoin_data_dir)
    THEN Ok(Join(join_network_with_data_dir(o.chain, Unwrap(o.bitcoin_data_dir)),
                 ".cookie"))
    ELSE IF IsSome(o.cookie_file) THEN Ok(Unwrap(o.cookie_file))
    ELSE IF e.linux
      THEN IF IsSome(e.home)
             THEN Ok(Join(join_network_with_data_dir(o.chain,
                            Join(Unwrap(e.home), ".bitcoin")), ".cookie"))
             ELSE Err(<< <<"Failed to retrieve home dir">> >>)
      ELSE IF IsSome(e.data)
             THEN Ok(Join(join_network_with_data_dir(o.chain,
                            Join(Unwrap(e.data), "Bitcoin")), ".cookie"))
             ELSE Err(<< <<"Failed to retrieve data dir">> >>)

cookie_file(o, e) ==
  IF IsSome(o.cookie_file) THEN Ok(Unwrap(o.cookie_file))
  ELSE IF IsSome(o.bitcoin_data_dir)
    THEN Ok(Join(join_network_with_data_dir(o.chain, Unwrap(o.bitcoin_data_dir)),
                 ".cookie"))
  ELSE IF e.linux
    THEN IF IsSome(e.home)
           THEN Ok(Join(join_network_with_data_dir(o.chain,
                          Join(Unwrap(e.home), ".bitcoin")), ".cookie"))
           ELSE Err(<< <<"Failed to retrieve home dir">> >>)
    ELSE IF IsSome(e.data)
           THEN Ok(Join(join_network_with_data_dir(o.chain,
                          Join(Unwrap(e.data), "Bitcoin")), ".cookie"))
           ELSE Err(<< <<"Failed to retrieve data dir">> >>)

\* -------------------------------------------------------------- filesystem

\* The root (the empty path) is always a directory.
IsDir(f, p) == p = <<>> \/ p \in f.dirs

Parent(p) == SubSeq(p, 1, Len(p) - 1)

\* One mkdir(2) call: the errno ("OK" on success) and the filesystem after it.
Mkdir(f, p) ==
  IF IsDir(f, p) \/ p \in f.files THEN [errno |-> "EEXIST", fs |-> f]
  ELSE IF Parent(p) \in f.files THEN [errno |-> "ENOTDIR", fs |-> f]
  ELSE IF ~IsDir(f, Parent(p)) THEN [errno |-> "ENOENT", fs |-> f]
  ELSE IF Parent(p) \in f.ro THEN [errno |-> "EACCES", fs |-> f]
  ELSE [errno |-> "OK", fs |-> [f EXCEPT !.dirs = @ \cup {p}]]

\* create_dir_all(prefix n of path) has returned Ok: the call is over, or the
\* caller's frame goes on to its second mkdir.
CdaReturned(f, path, n) ==
  IF n = Len(path)
    THEN [status |-> "ok", n |-> n, phase |-> "second", fs |-> f, errno |-> "OK"]
    ELSE [status |-> "run", n |-> n + 1, phase |-> "second", fs |-> f, errno |-> "OK"]

CdaFailed(f, n, phase, errno) ==
  [status |-> "err", n |-> n, phase |-> phase, fs |-> f, errno |-> errno]

\* A create_dir_all that does not accept a directory that already exists.
CdaStepNoExisting(f, path, n, phase) ==
  LET p == SubSeq(path, 1, n)
      r == Mkdir(f, p)
  IN  IF r.errno = "OK" THEN CdaReturned(r.fs, path, n)
      ELSE IF phase = "first" /\ r.errno = "ENOENT"
        THEN IF n - 1 = 0
               THEN [status |-> "run", n |-> n, phase |-> "second", fs |-> f,
                     errno |-> "OK"]
               ELSE [status |-> "run", n |-> n - 1, phase |-> "first", fs |-> f,
                     errno |-> "OK"]
      ELSE CdaFailed(f, n, phase, r.errno)

\* One mkdir of create_dir_all working on prefix n of path: in its first
\* phase a frame tries mkdir and recurses into the parent on NotFound, in its
\* second phase it retries after the parent was made.  An error is accepted
\* when the path is a directory by then.
CdaStep(f, path, n, phase) ==
  LET p == SubSeq(path, 1, n)
      r == Mkdir(f, p)
  IN  IF r.errno = "OK" THEN CdaReturned(r.fs, path, n)
      ELSE IF phase = "first" /\ r.errno = "ENOENT"
        THEN IF n - 1 = 0
               THEN [status |-> "run", n |-> n, phase |-> "second", fs |-> f,
                     errno |-> "OK"]
               ELSE [status |-> "run", n |-> n - 1, phase |-> "first", fs |-> f,
                     errno |-> "OK"]
      ELSE IF IsDir(f, p) THEN CdaReturned(f, path, n)
      ELSE CdaFailed(f, n, phase, r.errno)

RECURSIVE CdaRun(_, _, _, _)
CdaRun(f, path, n, phase) ==
  LET s == CdaStep(f, path, n, phase)
  IN  IF s.status = "run" THEN CdaRun(s.fs, path, s.n, s.phase) ELSE s

\* fs::create_dir_all, run to completion.
create_dir_all(f, path) ==
  IF path = <<>>
    THEN [status |-> "ok", n |-> 0, phase |-> "first", fs |-> f, errno |-> "OK"]
    ELSE CdaRun(f, path, Len(path), "first")

\* ---------------------------------------------------------------- data_dir

data_dir_resolveCreateOverride(o, e) ==
  IF IsSome(o.data_dir)
    THEN [kind |-> "create", path |-> Unwrap(o.data_dir)]
    ELSE IF ~IsSome(e.data)
      THEN [kind |-> "nolookup", path |-> <<>>]
      ELSE [kind |-> "create",
            path |-> join_network_with_data_dir(o.chain, Join(Unwrap(e.data), "ord"))]

\* data_dir up to the create_dir_all call: the early return of the override,
\* the failed lookup, or the path to create.
data_dir_resolve(o, e) ==
  IF IsSome(o.data_dir)
    THEN [kind |-> "override", path |-> Unwrap(o.data_dir)]
    ELSE IF ~IsSome(e.data)
      THEN [kind |-> "nolookup", path |-> <<>>]
      ELSE [kind |-> "create",
            path |-> join_network_with_data_dir(o.chain, Join(Unwrap(e.data), "ord"))]

CreateFailure(path, errno) ==
  Err(<< <<"Failed to create data dir ", Tick>> \o Display(path)
           \o <<Tick, ": ", errno>> >>)

\* data_dir as one call: its result and the filesystem it leaves.
data_dir(o, e, f) ==
  LET d == data_dir_resolve(o, e)
  IN  CASE d.kind = "override" -> [res |-> Ok(d.path), fs |-> f]
        [] d.kind = "nolookup" ->
             [res |-> Err(<< <<"Failed to retrieve data dir">> >>), fs |-> f]
        [] d.kind = "create" ->
             LET c == create_dir_all(f, d.path)
             IN  IF c.status = "err"
                   THEN [res |-> CreateFailure(d.path, c.errno), fs |-> c.fs]
                   ELSE [res |-> Ok(d.path), fs |-> c.fs]

\* ------------------------------------------------------ bitcoin_rpc_client

ConnectContext == <<"Failed to connect to Bitcoin Core RPC at ", "{rpc_url}">>

ConnectLog(url, path) ==
  <<"Connecting to Bitcoin Core RPC server at ">> \o url
    \o <<" using credentials from ", Tick>> \o Display(path) \o <<Tick>>

\* One Client::new(url, Auth::CookieFile(path)) call and whether it returned Ok.
NewCall(url, path, reply) ==
  [url |-> url, auth |-> [kind |-> "CookieFile", path |-> path], ok |-> reply]

bitcoin_rpc_clientRetry(o, e, factoryOk) ==
  LET c == cookie_file(o, e)
      url == rpc_url(o)
  IN  IF ~c.ok
        THEN [res |-> c, calls |-> <<>>, log |-> <<>>]
        ELSE IF factoryOk
          THEN [res |-> Ok(<<"Client">>), calls |-> <<NewCall(url, c.val, TRUE)>>,
                log |-> ConnectLog(url, c.val)]
          ELSE [res |-> Err(<<ConnectContext, <<"rpc error">> >>),
                calls |-> <<NewCall(url, c.val, FALSE), NewCall(url, c.val, FALSE)>>,
                log |-> ConnectLog(url, c.val)]

\* bitcoin_rpc_client; factoryOk is the answer Client::new gives if asked.
bitcoin_rpc_client(o, e, factoryOk) ==
  LET c == cookie_file(o, e)
      url == rpc_url(o)
  IN  IF ~c.ok
        THEN [res |-> c, calls |-> <<>>, log |-> <<>>]
        ELSE [res |-> IF factoryOk
                        THEN Ok(<<"Client">>)
                        ELSE Err(<<ConnectContext, <<"rpc error">> >>),
              calls |-> <<NewCall(url, c.val, factoryOk)>>,
              log |-> ConnectLog(url, c.val)]

\* ------------------------------------------------------------ initial state

OptionsSet ==
  [ chain : Chains,
    max_index_size : {None} \cup {Some(Bytes(n)) : n \in 0..MaxBytes},
    cookie_file : {None, Some(UserCookieFile)},
    rpc_url : {None, Some(UserRpcUrl)},
    data_dir : {None, Some(UserDataDir)},
    bitcoin_data_dir : {None, Some(UserBitcoinDataDir)} ]

EnvSet ==
  [ linux : BOOLEAN,
    home : {None, Some(HomeDir)},
    data : {None, Some(PlatformDataDir)} ]

\* The default data directory of a chain, were the platform lookup to succeed.
DefaultPath(chain) == join_network_with_data_dir(chain, Join(PlatformDataDir, "ord"))

\* A filesystem in which the first k components of path exist, the next one
\* being absent, a regular file, or refused by a read-only parent.
FsWith(path, k, blocker, custom) ==
  [ dirs |-> {SubSeq(path, 1, i) : i \in 1..k}
               \cup (IF custom THEN {UserDataDir} ELSE {}),
    files |-> IF blocker = "file" /\ k < Len(path)
                THEN {SubSeq(path, 1, k + 1)} ELSE {},
    ro |-> IF blocker = "ro" THEN {SubSeq(path, 1, k)} ELSE {} ]

InitialFs(chain) ==
  { FsWith(DefaultPath(chain), k, b, c) :
      k \in 0..Len(DefaultPath(chain)), b \in {"none", "file", "ro"}, c \in BOOLEAN }

NoCall == [op |-> "none", res |-> Ok(<<>>), calls |-> <<>>, log |-> <<>>, created |-> FALSE]

Callers == 1..NumCallers

Idle == [pc |-> "idle", path |-> <<>>, n |-> 0, phase |-> "first", ret |-> Ok(<<>>),
         raced |-> FALSE]

Init ==
  /\ opts \in OptionsSet
  /\ env \in EnvSet
  /\ fs \in InitialFs(opts.chain)
  /\ last = NoCall
  /\ callers = [c \in Callers |-> Idle]
  /\ firstOk = None

\* ------------------------------------------------- operations, one per call

Returned(op, res) ==
  [op |-> op, res |-> res, calls |-> <<>>, log |-> <<>>, created |-> FALSE]

MaxIndexSize ==
  /\ last' = Returned("max_index_size", Ok(max_index_size(opts)))
  /\ UNCHANGED <<opts, env, fs, callers, firstOk>>

RpcUrl ==
  /\ last' = Returned("rpc_url", Ok(rpc_url(opts)))
  /\ UNCHANGED <<opts, env, fs, callers, firstOk>>

CookieFile ==
  /\ last' = Returned("cookie_file", cookie_file(opts, env))
  /\ UNCHANGED <<opts, env, fs, callers, firstOk>>

DataDir ==
  LET r == data_dir(opts, env, fs)
  IN  /\ fs' = r.fs
      /\ last' = [Returned("data_dir", r.res) EXCEPT !.created = (r.fs # fs)]
      /\ UNCHANGED <<opts, env, callers, firstOk>>

BitcoinRpcClient ==
  \E factoryOk \in BOOLEAN :
    LET r == bitcoin_rpc_client(opts, env, factoryOk)
    IN  /\ last' = [Returned("bitcoin_rpc_client", r.res)
                      EXCEPT !.calls = r.calls, !.log = r.log]
        /\ UNCHANGED <<opts, env, fs, callers, firstOk>>

Next == MaxIndexSize \/ RpcUrl \/ CookieFile \/ DataDir \/ BitcoinRpcClient

Spec == Init /\ [][Next]_vars

\* ------------------------------------- data_dir, callers running concurrently

\* Only what data_dir reads varies; the other overrides are absent.
InitRace ==
  /\ opts \in { o \in OptionsSet : /\ o.max_index_size = None
                                   /\ o.cookie_file = None
                                   /\ o.rpc_url = None
                                   /\ o.bitcoin_data_dir = None }
  /\ env \in { e \in EnvSet : e.linux /\ e.home = Some(HomeDir) }
  /\ fs \in InitialFs(opts.chain)
  /\ last = NoCall
  /\ callers = [c \in Callers |-> Idle]
  /\ firstOk = None

\* The call of caller c returns res.
Return(c, res) ==
  /\ callers' = [callers EXCEPT ![c].pc = "done", ![c].ret = res]
  /\ firstOk' = IF res.ok /\ firstOk = None
                  THEN Some([by |-> c, path |-> res.val, fs |-> fs'])
                  ELSE firstOk

\* Caller c enters data_dir: lines 103-111, up to the create_dir_all call.
DataDirBegin(c) ==
  /\ callers[c].pc \in {"idle", "done"}
  /\ LET d == data_dir_resolve(opts, env)
     IN  CASE d.kind = "override" ->
                /\ fs' = fs
                /\ Return(c, Ok(d.path))
           [] d.kind = "nolookup" ->
                /\ fs' = fs
                /\ Return(c, Err(<< <<"Failed to retrieve data dir">> >>))
           [] d.kind = "create" ->
                /\ callers' = [callers EXCEPT ![c] =
                     [pc |-> "mkdir", path |-> d.path, n |-> Len(d.path),
                      phase |-> "first", ret |-> Ok(<<>>), raced |-> (firstOk = None)]]
                /\ UNCHANGED <<fs, firstOk>>
  /\ UNCHANGED <<opts, env, last>>

\* Caller c makes the next mkdir of its create_dir_all, and returns from
\* data_dir when that was the last one.
DataDirMkdir(c) ==
  /\ callers[c].pc = "mkdir"
  /\ LET s == CdaStep(fs, callers[c].path, callers[c].n, callers[c].phase)
     IN  /\ fs' = s.fs
         /\ CASE s.status = "run" ->
                   /\ callers' = [callers EXCEPT ![c].n = s.n, ![c].phase = s.phase]
                   /\ UNCHANGED firstOk
              [] s.status = "ok" -> Return(c, Ok(callers[c].path))
              [] s.status = "err" -> Return(c, CreateFailure(callers[c].path, s.errno))
  /\ UNCHANGED <<opts, env, last>>

NextRace == \E c \in Callers : DataDirBegin(c) \/ DataDirMkdir(c)

SpecRace == InitRace /\ [][NextRace]_vars

\* ------------------------------------------------------------------ claims

\* The path components a network adds to a default directory.
SuffixOf(chain) ==
  CASE chain \in {"Main", "Mainnet"} -> <<>>
    [] chain = "Regtest" -> <<"regtest">>
    [] chain = "Signet" -> <<"signet">>
    [] chain \in {"Test", "Testnet"} -> <<"testnet">>

\* C1: whenever data_dir returns Ok, with or without an explicit data
\* directory, the returned path is a directory of the filesystem at that
\* moment, and a failed creation yields an error.
C1_ReturnedPathExists ==
  last.op = "data_dir" /\ last.res.ok => IsDir(fs, last.res.val)

\* C2: when Client::new fails, the outermost message of the error returned
\* by bitcoin_rpc_client contains the URL rpc_url() gives.
C2_ContextNamesUrl ==
  (last.op = "bitcoin_rpc_client" /\ last.calls # <<>> /\ ~last.res.ok)
    => Contains(last.res.err[1], rpc_url(opts))

\* C3: with every override, the environment and the filesystem fixed, the
\* selectors Main and Mainnet, and Test and Testnet, give the same
\* max_index_size, rpc_url, cookie_file and data_dir (result and filesystem
\* left); the default data directory ends in ord for the first pair and in
\* ord/testnet for the second.
AliasOf(chain) ==
  CASE chain = "Main" -> "Mainnet"
    [] chain = "Mainnet" -> "Main"
    [] chain = "Test" -> "Testnet"
    [] chain = "Testnet" -> "Test"
    [] OTHER -> chain

C3_AliasEquivalence ==
  LET twin == [opts EXCEPT !.chain = AliasOf(opts.chain)]
      d == data_dir(opts, env, fs)
  IN  /\ max_index_size(twin) = max_index_size(opts)
      /\ rpc_url(twin) = rpc_url(opts)
      /\ cookie_file(twin, env) = cookie_file(opts, env)
      /\ data_dir(twin, env, fs) = d
      /\ (opts.data_dir = None /\ d.res.ok) =>
           /\ opts.chain \in {"Main", "Mainnet"} =>
                /\ EndsWith(d.res.val, <<"ord">>)
                /\ d.res.val = Join(PlatformDataDir, "ord")
           /\ opts.chain \in {"Test", "Testnet"} =>
                EndsWith(d.res.val, <<"ord", "testnet">>)

C3_Witness ==
  /\ opts.chain = "Test"
  /\ opts.data_dir = None
  /\ last.op = "data_dir"
  /\ last.res.ok
  /\ last.created

\* C4: cookie_file returns the explicit cookie file unchanged when there is
\* one, whatever the chain, the node-data directory and the platform lookup;
\* otherwise its base is the supplied node-data directory, else the platform
\* default (an error when that lookup gives nothing), and the result is the
\* base, plus the lowercase network name unless the network is the primary
\* one, plus .cookie.
CookieBase ==
  IF IsSome(opts.bitcoin_data_dir) THEN opts.bitcoin_data_dir
  ELSE IF env.linux
    THEN (IF IsSome(env.home) THEN Some(Unwrap(env.home) \o <<".bitcoin">>) ELSE None)
    ELSE (IF IsSome(env.data) THEN Some(Unwrap(env.data) \o <<"Bitcoin">>) ELSE None)

C4_CookieFileOrder ==
  last.op = "cookie_file" =>
    IF IsSome(opts.cookie_file)
      THEN last.res = Ok(Unwrap(opts.cookie_file))
      ELSE IF CookieBase = None
        THEN ~last.res.ok /\ last.res.val = <<>>
        ELSE last.res = Ok(Unwrap(CookieBase) \o SuffixOf(opts.chain) \o <<".cookie">>)

C4_Witness ==
  /\ last.op = "cookie_file"
  /\ opts.cookie_file = None
  /\ opts.bitcoin_data_dir = Some(UserBitcoinDataDir)
  /\ opts.chain = "Signet"
  /\ env.home = None
  /\ last.res = Ok(<<"foo", "signet", ".cookie">>)

\* C5: a successful data_dir returns the explicit data directory unchanged
\* when there is one; otherwise the platform data directory joined with ord,
\* and with the lowercase network name after it unless the network is the
\* primary one.  Without an override and without a platform data directory
\* it returns an error.
C5_DataDirPath ==
  last.op = "data_dir" =>
    IF IsSome(opts.data_dir)
      THEN last.res = Ok(Unwrap(opts.data_dir))
      ELSE IF env.data = None
        THEN ~last.res.ok
        ELSE last.res.ok =>
               last.res.val = Unwrap(env.data) \o <<"ord">> \o SuffixOf(opts.chain)

C5_Witness ==
  /\ last.op = "data_dir"
  /\ opts.data_dir = None
  /\ opts.chain = "Signet"
  /\ last.res = Ok(<<"share", "ord", "signet">>)

\* C6: rpc_url never fails; it returns the supplied URL unchanged when there
\* is one, and otherwise 127.0.0.1: followed by 8332 (primary), 18443
\* (regtest), 38332 (signet) or 18332 (testnet).
DefaultPort ==
  CASE opts.chain \in {"Main", "Mainnet"} -> "8332"
    [] opts.chain = "Regtest" -> "18443"
    [] opts.chain = "Signet" -> "38332"
    [] opts.chain \in {"Test", "Testnet"} -> "18332"

C6_RpcUrl ==
  last.op = "rpc_url" =>
    /\ last.res.ok
    /\ last.res.val = IF IsSome(opts.rpc_url)
                        THEN Unwrap(opts.rpc_url)
                        ELSE <<"127.0.0.1:", DefaultPort>>

C6_Witness ==
  /\ last.op = "rpc_url"
  /\ opts.rpc_url = None
  /\ opts.chain = "Regtest"
  /\ last.res.val = <<"127.0.0.1:", "18443">>

\* C7: max_index_size returns the supplied byte count unchanged when there
\* is one (0 and 1 included); otherwise 10 * 2^20 for regtest, whose limbs
\* are <<0, 10>>, and 2^40 for the other networks, whose limbs are <<0, 0, 1>>.
C7_MaxIndexSize ==
  last.op = "max_index_size" =>
    /\ last.res.ok
    /\ last.res.val = IF IsSome(opts.max_index_size)
                        THEN Unwrap(opts.max_index_size)
                        ELSE IF opts.chain = "Regtest" THEN <<0, 10>> ELSE <<0, 0, 1>>

C7_Witness ==
  /\ last.op = "max_index_size"
  /\ opts.max_index_size = None
  /\ opts.chain = "Regtest"
  /\ last.res.val = <<0, 10>>

\* C8: once a data_dir call has returned Ok, every data_dir call that returns
\* later, begun before or after that return, returns Ok with the same path,
\* and the filesystem stays as that first call left it.
C8_Idempotent ==
  [][ IsSome(firstOk) =>
        /\ fs' = Unwrap(firstOk).fs
        /\ \A c \in Callers :
             (callers[c].pc # "done" /\ callers'[c].pc = "done")
               => callers'[c].ret = Ok(Unwrap(firstOk).path) ]_vars

C8_Witness ==
  /\ opts.data_dir = None
  /\ IsSome(firstOk)
  /\ \E c \in Callers :
       /\ Unwrap(firstOk).by # c
       /\ callers[c].pc = "done"
       /\ callers[c].raced
       /\ callers[c].ret = Ok(Unwrap(firstOk).path)
  /\ Unwrap(firstOk).path \in fs.dirs

\* C9: the filesystem changes only in a data_dir call made without an
\* explicit data directory and with a platform data directory available;
\* every other call leaves it as it was.
C9_OnlyDataDirCreates ==
  [][ fs' # fs =>
        /\ last'.op = "data_dir"
        /\ opts.data_dir = None
        /\ IsSome(env.data) ]_vars

C9_Witness ==
  /\ last.op = "data_dir"
  /\ last.created
  /\ opts.cookie_file = None
  /\ opts.bitcoin_data_dir = Some(UserBitcoinDataDir)

\* C10: a bitcoin_rpc_client call asks Client::new at most once, and only
\* when cookie_file succeeded, with the URL of rpc_url and cookie-file
\* authentication from the path of cookie_file.  When cookie_file fails its
\* error is the result and Client::new is not asked; when Client::new fails
\* the result is an error and it was asked once.
C10_FactoryOnce ==
  last.op = "bitcoin_rpc_client" =>
    LET c == cookie_file(opts, env)
    IN  /\ Len(last.calls) <= 1
        /\ (last.calls # <<>>) = c.ok
        /\ ~c.ok => last.res = c
        /\ c.ok =>
             /\ last.calls[1].url = rpc_url(opts)
             /\ last.calls[1].auth = [kind |-> "CookieFile", path |-> c.val]
             /\ last.res.ok = last.calls[1].ok

C10_Witness ==
  /\ last.op = "bitcoin_rpc_client"
  /\ Len(last.calls) = 1
  /\ ~last.calls[1].ok
  /\ ~last.res.ok

====
